---- MODULE Spec2Model ----
(***************************************************************************)
(* Model of the books-backend HTTP handlers (package controllers), the     *)
(* PostgreSQL table they write through gorm, the Redis look-aside cache    *)
(* and the Kafka producer.  The repository holds two versions of the       *)
(* controller file: controllers/bookController.go (fixed list key "books", *)
(* update through a separate payload) and unnamed/part_000 (paged list     *)
(* key, update bound onto the loaded record).  `controller` says which of  *)
(* the two is compiled in; it is fixed for a whole behaviour.              *)
(*                                                                         *)
(* In Spec, SpecCacheDown and SpecQueries one action is one whole request,  *)
(* from routing to the response; in SpecConcurrent one action is one call  *)
(* of a handler to the store, the cache or the producer, and the handlers  *)
(* of several requests interleave.                                         *)
(* Strings that the code parses or formats (path parameter, query          *)
(* parameters, cache keys) are sequences of one-character strings, so      *)
(* that strconv.Atoi / fmt.Sprintf("%d") are computed, not assumed.        *)
(***************************************************************************)
EXTENDS Integers, Sequences, FiniteSets, TLC

\* ------------------------------------------------------------------ bounds
MaxId    == 2   \* ids 1..MaxId: range of the id sequence and of client ids
MaxSteps == 2   \* requests served in one behaviour

\* ----------------------------------------------------------- HTTP statuses
StatusOK                  == 200
StatusCreated             == 201
StatusBadRequest          == 400
StatusNotFound            == 404
StatusInternalServerError == 500

\* GetBooks' defaults (part_000: limit := 10, offset := 0)
DefaultLimit  == 10
DefaultOffset == 0

VARIABLES
    controller,  \* "bookController" | "part_000": the controller file built in
    producer,    \* kafka.Producer: "nil" (InitProducer failed) | "ok"
    cacheUp,     \* whether the Redis server answers (ConnectRedis only logs)
    store,       \* the books table: sequence of rows in table order
    nextId,      \* next value of the table's id sequence
    cache,       \* Redis: function from key to the JSON value stored
    events,      \* messages handed to the producer, in order
    steps,       \* number of requests the server has taken
    last,        \* the request answered last and its response
    inflight     \* the handlers running side by side, in order of arrival
                 \* (empty while requests are served one at a time)

vars == <<controller, producer, cacheUp, store, nextId, cache, events, steps, last,
          inflight>>

\* ------------------------------------------------------------ value domains
Titles  == {"", "a", "b"}
Authors == {"", "p"}
Years   == {0, 1}
Ids     == 1..MaxId

\* An optional JSON field / query parameter: <<>> absent, <<v>> present.
Opt(S) == {<<>>} \cup {<<v>> : v \in S}

\* models.Book
ZeroBook == [id |-> 0, title |-> "", author |-> "", year |-> 0]

\* A request body: malformed JSON, or an object with any subset of the fields
\* (the bodies that carry an "id" are otherwise complete and valid).
MalformedBody == [wellFormed |-> FALSE, id |-> <<>>, title |-> <<>>, author |-> <<>>, year |-> <<>>]

Bodies ==
    {MalformedBody} \cup
    {b \in [wellFormed : {TRUE}, id : Opt(0..MaxId), title : Opt(Titles),
            author : Opt(Authors), year : Opt(Years)] :
        b.id # <<>> => /\ b.title \in {<<t>> : t \in Titles \ {""}}
                       /\ b.author \in {<<a>> : a \in Authors \ {""}}
                       /\ b.year \in {<<y>> : y \in Years \ {0}}}

\* ------------------------------------------------------- strconv / fmt
Digits == <<"0", "1", "2", "3", "4", "5", "6", "7", "8", "9">>

IsDigit(c) == \E i \in 1..10 : Digits[i] = c

DigitVal(c) == (CHOOSE i \in 1..10 : Digits[i] = c) - 1

RECURSIVE DigitsVal(_)
DigitsVal(s) ==
    IF s = <<>> THEN 0
    ELSE 10 * DigitsVal(SubSeq(s, 1, Len(s) - 1)) + DigitVal(s[Len(s)])

\* strconv.Atoi: optional sign, then one or more decimal digits.
Atoi(s) ==
    LET signed == s # <<>> /\ s[1] \in {"-", "+"}
        ds     == IF signed THEN Tail(s) ELSE s
    IN  IF ds = <<>> \/ \E i \in 1..Len(ds) : ~IsDigit(ds[i])
        THEN [ok |-> FALSE, val |-> 0]
        ELSE [ok |-> TRUE,
              val |-> IF signed /\ s[1] = "-" THEN 0 - DigitsVal(ds) ELSE DigitsVal(ds)]

\* strconv.Itoa / "%d" of a non-negative integer.
RECURSIVE Itoa(_)
Itoa(n) ==
    IF n < 10 THEN <<Digits[n + 1]>>
    ELSE Itoa(n \div 10) \o <<Digits[(n % 10) + 1]>>

\* The path parameters requests carry: the decimal form of every id, and a
\* zero-padded form ("01") of the first.
Paths == {Itoa(k) : k \in Ids} \cup {<<"0">> \o Itoa(k) : k \in {1}}

\* The values of the limit and offset query parameters requests carry.
LimitParams  == Opt({<<"1">>, <<"x">>})
OffsetParams == Opt({<<"1">>})

\* -------------------------------------------------------- encoding/json
\* json.Marshal of a Book: the object's values in field order.
Marshal(book) == <<book.id, book.title, book.author, book.year>>

\* json.Unmarshal into a Book.
Unmarshal(j) == [id |-> j[1], title |-> j[2], author |-> j[3], year |-> j[4]]

\* json.Marshal / Unmarshal of []Book.
MarshalList(books) == [i \in 1..Len(books) |-> Marshal(books[i])]

UnmarshalList(j) == [i \in 1..Len(j) |-> Unmarshal(j[i])]

\* ctx.ShouldBindJSON(&book): fields present in the body overwrite the struct.
Bind(book, body) ==
    [id     |-> IF body.id = <<>> THEN book.id ELSE body.id[1],
     title  |-> IF body.title = <<>> THEN book.title ELSE body.title[1],
     author |-> IF body.author = <<>> THEN book.author ELSE body.author[1],
     year   |-> IF body.year = <<>> THEN book.year ELSE body.year[1]]

\* ------------------------------------------------------------- the store
HasRow(s, id) == \E i \in 1..Len(s) : s[i].id = id

RowIndex(s, id) == CHOOSE i \in 1..Len(s) : s[i].id = id

RowIds(s) == {s[i].id : i \in 1..Len(s)}

Min(a, b) == IF a < b THEN a ELSE b

\* database.DB.First(&book, id) with the path parameter: gorm reads a numeric
\* string as the primary key and PostgreSQL casts it to the integer column;
\* any error, record-not-found included, comes back in result.Error.
\* dbOk = FALSE: the statement fails for another reason than a missing row.
First(s, id, dbOk) ==
    LET n == Atoi(id)
    IN  IF ~dbOk \/ ~n.ok THEN [err |-> TRUE, notFound |-> FALSE, book |-> ZeroBook]
        ELSE IF ~HasRow(s, n.val) THEN [err |-> TRUE, notFound |-> TRUE, book |-> ZeroBook]
        ELSE [err |-> FALSE, notFound |-> FALSE, book |-> s[RowIndex(s, n.val)]]

\* database.DB.Find(&books): every row, in table order.
Find(s, dbOk) ==
    IF dbOk THEN [err |-> FALSE, books |-> s] ELSE [err |-> TRUE, books |-> <<>>]

\* database.DB.Limit(limit).Offset(offset).Find(&books)
FindPage(s, limit, offset, dbOk) ==
    IF dbOk THEN [err |-> FALSE, books |-> SubSeq(s, offset + 1, Min(offset + limit, Len(s)))]
    ELSE [err |-> TRUE, books |-> <<>>]

\* database.DB.Create(&book): a zero ID takes the next value of the id
\* sequence (consumed even when the insert fails); a non-zero ID is inserted
\* as given.  A row with that id already present is a duplicate-key error.
Create(s, nid, book, dbOk) ==
    LET id  == IF book.id = 0 THEN nid ELSE book.id
        seq == IF book.id = 0 THEN nid + 1 ELSE nid
        row == [book EXCEPT !.id = id]
    IN  IF ~dbOk THEN [err |-> TRUE, store |-> s, nextId |-> nid, book |-> book]
        ELSE IF HasRow(s, id) THEN [err |-> TRUE, store |-> s, nextId |-> seq, book |-> book]
        ELSE [err |-> FALSE, store |-> Append(s, row), nextId |-> seq, book |-> row]

\* database.DB.Save(&book): Create when the ID is zero; otherwise UPDATE of
\* all fields WHERE id = book.ID.  When no row has that id, older gorm
\* releases stop there and later ones insert the row (upsert = TRUE).
Save(s, nid, book, dbOk, upsert) ==
    IF book.id = 0 THEN Create(s, nid, book, dbOk)
    ELSE IF ~dbOk THEN [err |-> TRUE, store |-> s, nextId |-> nid, book |-> book]
    ELSE IF HasRow(s, book.id)
         THEN [err |-> FALSE, store |-> [s EXCEPT ![RowIndex(s, book.id)] = book],
               nextId |-> nid, book |-> book]
    ELSE IF upsert
         THEN [err |-> FALSE, store |-> Append(s, book), nextId |-> nid, book |-> book]
    ELSE [err |-> FALSE, store |-> s, nextId |-> nid, book |-> book]

\* database.DB.Delete(&book): DELETE WHERE id = book.ID (Book has no
\* DeletedAt column, so Delete and Unscoped().Delete both remove the row).
Delete(s, book, dbOk) ==
    IF ~dbOk THEN [err |-> TRUE, store |-> s]
    ELSE [err |-> FALSE, store |-> SelectSeq(s, LAMBDA r : r.id # book.id)]

\* ------------------------------------------------------------- the cache
\* CacheHit without the `err == nil` test: whatever the key last held counts.
CacheHitErrIgnored(key) == key \in DOMAIN cache

\* redis.RedisClient.Get(...).Result(): err == nil iff the server answers
\* and holds the key.
CacheHit(key) == cacheUp /\ key \in DOMAIN cache

\* redis.RedisClient.Set(ctx, key, value, 0); the result is not looked at.
CacheSet(c, key, value) ==
    IF cacheUp THEN [k \in DOMAIN c \cup {key} |-> IF k = key THEN value ELSE c[k]]
    ELSE c

\* redis.RedisClient.Del(ctx, keys...); the result is not looked at.
CacheDel(c, keys) ==
    IF cacheUp THEN [k \in DOMAIN c \ keys |-> c[k]] ELSE c

BooksKey == <<"books">>

BookKey(id) == <<"book:">> \o id

\* fmt.Sprintf("books:limit=%d:offset=%d", limit, offset)
PageKey(limit, offset) ==
    <<"books:limit=">> \o Itoa(limit) \o <<":offset=">> \o Itoa(offset)

\* ---------------------------------------------------------- the notifier
\* kafka.PublishMessage: Producer.Produce on the package-level Producer.
\* Produce dereferences its receiver, so a nil Producer panics; otherwise the
\* message is handed to the producer (`events` is the log of these calls:
\* what Produce returns and whether the broker gets the message is not
\* looked at by the handlers).
ProducerPanics == producer = "nil"

PublishMessage(topic, message) == Append(events, [topic |-> topic, value |-> message])

\* ------------------------------------------------------ requests, responses
\* `book` is the struct the handler bound the body onto (the zero Book when
\* the handler did not get as far, or the body was malformed).
Request(op, path, limit, offset, book) ==
    [op |-> op, path |-> path, limit |-> limit, offset |-> offset, book |-> book]

\* status and JSON body (an error or message text, or a list of Book objects);
\* dbErr: a store call failed for another reason than a missing row;
\* stored: the store write of the request succeeded.
Response(status, msg, books, dbErr, stored) ==
    [status |-> status, msg |-> msg, books |-> books, dbErr |-> dbErr, stored |-> stored]

\* gin.Default() installs Recovery: a panicking handler is answered 500.
Recovered(stored) == Response(StatusInternalServerError, "", <<>>, FALSE, stored)

Serve(req, resp) ==
    /\ steps' = steps + 1
    /\ last' = [req |-> req, resp |-> resp]
    /\ UNCHANGED <<controller, producer, cacheUp, inflight>>

\* ValidationError with the year check written `< 0` (a zero year passes).
ValidationErrorYearNegative(book) ==
    IF book.title = "" THEN "Title cannot be empty"
    ELSE IF book.author = "" THEN "Author cannot be empty"
    ELSE IF book.year < 0 THEN "Year must be a valid positive number"
    ELSE ""

\* ValidationError with the author check left out.
ValidationErrorNoAuthor(book) ==
    IF book.title = "" THEN "Title cannot be empty"
    ELSE IF book.year <= 0 THEN "Year must be a valid positive number"
    ELSE ""

\* ValidationError with the author checked before the title.
ValidationErrorAuthorFirst(book) ==
    IF book.author = "" THEN "Author cannot be empty"
    ELSE IF book.title = "" THEN "Title cannot be empty"
    ELSE IF book.year <= 0 THEN "Year must be a valid positive number"
    ELSE ""

\* The field checks of CreateBook and UpdateBook, in the code's order:
\* the error message, "" when the book passes.
ValidationError(book) ==
    IF book.title = "" THEN "Title cannot be empty"
    ELSE IF book.author = "" THEN "Author cannot be empty"
    ELSE IF book.year <= 0 THEN "Year must be a valid positive number"
    ELSE ""

\* ---------------------------------------------------------------- Init
\* The cache as GET /books (default limit and offset) and GET /books/<id>
\* for every row leave it when they miss: what GetBooks and GetBookByID set.
WarmCache(ctrl, s) ==
    LET listKey == IF ctrl = "bookController" THEN BooksKey
                   ELSE PageKey(DefaultLimit, DefaultOffset)
        page    == SubSeq(s, DefaultOffset + 1, Min(DefaultOffset + DefaultLimit, Len(s)))
    IN  [k \in {listKey} \cup {BookKey(Itoa(s[i].id)) : i \in 1..Len(s)} |->
            IF k = listKey
            THEN MarshalList(IF ctrl = "bookController" THEN s ELSE page)
            ELSE Marshal(s[CHOOSE i \in 1..Len(s) : BookKey(Itoa(s[i].id)) = k])]

\* The process has just started (main): no request served, nothing published.
\* The table and Redis outlive the process: the table is empty or holds one
\* book created earlier, the cache is empty or holds what earlier reads of
\* that table stored.
Init ==
    /\ controller \in {"bookController", "part_000"}
    /\ producer \in {"nil", "ok"}
    /\ cacheUp = TRUE
    /\ store \in {<<>>, <<[id |-> 1, title |-> "a", author |-> "p", year |-> 1]>>}
    /\ nextId = Len(store) + 1
    /\ cache = <<>> \/ cache = WarmCache(controller, store)
    /\ events = <<>>
    /\ steps = 0
    /\ last = [req |-> Request("none", <<>>, <<>>, <<>>, ZeroBook),
               resp |-> Response(0, "", <<>>, FALSE, FALSE)]
    /\ inflight = <<>>

\* ------------------------------------------------------------- handlers
\* GET /books, controllers/bookController.go: the whole table under "books".
GetBooksWith(limit, offset) ==
    LET req == Request("list", <<>>, limit, offset, ZeroBook)
    IN  IF CacheHit(BooksKey)   \* a stored list is never "" (json.Marshal)
        THEN /\ Serve(req, Response(StatusOK, "", cache[BooksKey], FALSE, FALSE))
             /\ UNCHANGED <<store, nextId, cache, events>>
        ELSE \E dbOk \in BOOLEAN :
               LET result == Find(store, dbOk)
                   booksJSON == MarshalList(result.books)
               IN  IF result.err
                   THEN /\ Serve(req, Response(StatusInternalServerError,
                                               "Error fetching books", <<>>, TRUE, FALSE))
                        /\ UNCHANGED <<store, nextId, cache, events>>
                   ELSE /\ cache' = CacheSet(cache, BooksKey, booksJSON)
                        /\ Serve(req, Response(StatusOK, "", booksJSON, FALSE, FALSE))
                        /\ UNCHANGED <<store, nextId, events>>

GetBooks ==
    /\ controller = "bookController"
    /\ steps < MaxSteps
    /\ \E limit \in LimitParams, offset \in OffsetParams : GetBooksWith(limit, offset)

\* EffectiveLimit with the test written `limit < 0` (a zero limit is kept).
EffectiveLimitZeroKept(limit) ==
    LET n == Atoi(IF limit = <<>> THEN Itoa(DefaultLimit) ELSE limit[1])
    IN  IF ~n.ok \/ n.val < 0 THEN DefaultLimit ELSE n.val

\* strconv.Atoi(ctx.DefaultQuery("limit", "10")), non-positive or bad -> 10
EffectiveLimit(limit) ==
    LET n == Atoi(IF limit = <<>> THEN Itoa(DefaultLimit) ELSE limit[1])
    IN  IF ~n.ok \/ n.val <= 0 THEN DefaultLimit ELSE n.val

\* strconv.Atoi(ctx.DefaultQuery("offset", "0")), negative or bad -> 0
EffectiveOffset(offset) ==
    LET n == Atoi(IF offset = <<>> THEN Itoa(DefaultOffset) ELSE offset[1])
    IN  IF ~n.ok \/ n.val < 0 THEN DefaultOffset ELSE n.val

\* GET /books, unnamed/part_000: one page under a key made of limit and
\* offset; the result of Find is not checked.
GetBooksPagedWith(limit, offset) ==
    LET req == Request("list", <<>>, limit, offset, ZeroBook)
        cacheKey == PageKey(EffectiveLimit(limit), EffectiveOffset(offset))
    IN  IF CacheHit(cacheKey)
        THEN /\ Serve(req, Response(StatusOK, "",
                                    MarshalList(UnmarshalList(cache[cacheKey])),
                                    FALSE, FALSE))
             /\ UNCHANGED <<store, nextId, cache, events>>
        ELSE \E dbOk \in BOOLEAN :
               LET result == FindPage(store, EffectiveLimit(limit),
                                      EffectiveOffset(offset), dbOk)
                   data == MarshalList(result.books)
               IN  /\ cache' = CacheSet(cache, cacheKey, data)
                   /\ Serve(req, Response(StatusOK, "", data, result.err, FALSE))
                   /\ UNCHANGED <<store, nextId, events>>

GetBooksPaged ==
    /\ controller = "part_000"
    /\ steps < MaxSteps
    /\ \E limit \in LimitParams, offset \in OffsetParams : GetBooksPagedWith(limit, offset)

\* GET /books/:id (the same in both files).
GetBookByID ==
    /\ steps < MaxSteps
    /\ \E id \in Paths :
         LET req == Request("get", id, <<>>, <<>>, ZeroBook)
         IN  IF CacheHit(BookKey(id))
             THEN /\ Serve(req, Response(StatusOK, "",
                                         <<Marshal(Unmarshal(cache[BookKey(id)]))>>,
                                         FALSE, FALSE))
                  /\ UNCHANGED <<store, nextId, cache, events>>
             ELSE \E dbOk \in BOOLEAN :
                    LET result == First(store, id, dbOk)
                    IN  IF result.err
                        THEN /\ Serve(req, Response(StatusNotFound, "Book not found", <<>>,
                                                    ~result.notFound, FALSE))
                             /\ UNCHANGED <<store, nextId, cache, events>>
                        ELSE /\ cache' = CacheSet(cache, BookKey(id), Marshal(result.book))
                             /\ Serve(req, Response(StatusOK, "", <<Marshal(result.book)>>,
                                                    FALSE, FALSE))
                             /\ UNCHANGED <<store, nextId, events>>

\* POST /books (the same in both files).
CreateBook ==
    /\ steps < MaxSteps
    /\ \E body \in Bodies :
         LET book == Bind(ZeroBook, body)
             req  == Request("create", <<>>, <<>>, <<>>, book)
         IN  IF ~body.wellFormed
             THEN /\ Serve(req, Response(StatusBadRequest, "Invalid JSON data", <<>>, FALSE, FALSE))
                  /\ UNCHANGED <<store, nextId, cache, events>>
             ELSE IF ValidationError(book) # ""
             THEN /\ Serve(req, Response(StatusBadRequest, ValidationError(book), <<>>,
                                         FALSE, FALSE))
                  /\ UNCHANGED <<store, nextId, cache, events>>
             ELSE /\ book.id # 0 \/ nextId <= MaxId
                  /\ \E dbOk \in BOOLEAN :
                       LET result == Create(store, nextId, book, dbOk)
                       IN  IF result.err
                           THEN /\ nextId' = result.nextId
                                /\ Serve(req, Response(StatusInternalServerError,
                                                       "Failed to create book", <<>>, TRUE, FALSE))
                                /\ UNCHANGED <<store, cache, events>>
                           ELSE /\ store' = result.store
                                /\ nextId' = result.nextId
                                /\ cache' = CacheDel(cache, {BooksKey})
                                /\ IF ProducerPanics
                                   THEN /\ Serve(req, Recovered(TRUE))
                                        /\ UNCHANGED events
                                   ELSE /\ events' = PublishMessage("book_events",
                                                 <<"New book added: ", result.book.title>>)
                                        /\ Serve(req, Response(StatusCreated, "",
                                                 <<Marshal(result.book)>>, FALSE, TRUE))

\* What UpdateBook does once the record is loaded, bound and validated:
\* Save (result not checked), delete "books" and "book:"+id, publish, 200.
SaveAndRespond(req, id, book) ==
    /\ book.id # 0 \/ nextId <= MaxId
    /\ \E dbOk \in BOOLEAN :
       \E upsert \in IF dbOk /\ book.id # 0 /\ ~HasRow(store, book.id)
                     THEN BOOLEAN ELSE {FALSE} :
         LET result == Save(store, nextId, book, dbOk, upsert)
             stored == ~result.err /\ result.store # store
         IN  /\ store' = result.store
             /\ nextId' = result.nextId
             /\ cache' = CacheDel(cache, {BooksKey, BookKey(id)})
             /\ IF ProducerPanics
                THEN /\ Serve(req, Recovered(stored))
                     /\ UNCHANGED events
                ELSE /\ events' = PublishMessage("book_events",
                              <<"Book updated: ", result.book.title>>)
                     /\ Serve(req, Response(StatusOK, "", <<Marshal(result.book)>>,
                                              result.err, stored))

\* The common shape of both UpdateBook versions.  bindLoaded = FALSE: the body
\* is bound into a fresh updatedBook, validated, and its title, author and
\* year copied onto the loaded book (bookController.go); bindLoaded = TRUE:
\* the body is bound onto the loaded book itself (part_000).
UpdateWith(id, bindLoaded) ==
    \E dbOk \in BOOLEAN :
      LET result == First(store, id, dbOk)
      IN  IF result.err
          THEN /\ Serve(Request("update", id, <<>>, <<>>, ZeroBook),
                        Response(StatusNotFound, "Book not found", <<>>,
                                 ~result.notFound, FALSE))
               /\ UNCHANGED <<store, nextId, cache, events>>
          ELSE \E body \in Bodies :
            IF ~body.wellFormed
            THEN /\ Serve(Request("update", id, <<>>, <<>>, ZeroBook),
                          Response(StatusBadRequest, "Invalid JSON data", <<>>, FALSE, FALSE))
                 /\ UNCHANGED <<store, nextId, cache, events>>
            ELSE LET payload == Bind(IF bindLoaded THEN result.book ELSE ZeroBook, body)
                     book    == IF bindLoaded THEN payload
                                ELSE [result.book EXCEPT !.title = payload.title,
                                                         !.author = payload.author,
                                                         !.year = payload.year]
                     req     == Request("update", id, <<>>, <<>>, payload)
                 IN  IF ValidationError(payload) # ""
                     THEN /\ Serve(req, Response(StatusBadRequest, ValidationError(payload),
                                                 <<>>, FALSE, FALSE))
                          /\ UNCHANGED <<store, nextId, cache, events>>
                     ELSE SaveAndRespond(req, id, book)

\* PUT /books/:id, controllers/bookController.go.
UpdateBook ==
    /\ controller = "bookController"
    /\ steps < MaxSteps
    /\ \E id \in Paths : UpdateWith(id, FALSE)

\* PUT /books/:id, unnamed/part_000.
UpdateBookBound ==
    /\ controller = "part_000"
    /\ steps < MaxSteps
    /\ \E id \in Paths : UpdateWith(id, TRUE)

\* DeleteBook with the cache keys deleted before the record is looked up, so
\* that a request for a missing id deletes them too.
DeleteBookInvalidateFirst ==
    /\ steps < MaxSteps
    /\ \E id \in Paths, dbOk \in BOOLEAN :
         LET req    == Request("delete", id, <<>>, <<>>, ZeroBook)
             result == First(store, id, dbOk)
         IN  /\ cache' = CacheDel(cache, {BooksKey, BookKey(id)})
             /\ IF result.err
                THEN /\ Serve(req, Response(StatusNotFound, "Book not found", <<>>,
                                            ~result.notFound, FALSE))
                     /\ UNCHANGED <<store, nextId, events>>
                ELSE \E delOk \in BOOLEAN :
                       LET deleted == Delete(store, result.book, delOk)
                       IN  /\ store' = deleted.store
                           /\ UNCHANGED nextId
                           /\ IF ProducerPanics
                              THEN /\ Serve(req, Recovered(~deleted.err))
                                   /\ UNCHANGED events
                              ELSE /\ events' = PublishMessage("book_events",
                                            <<"Book deleted: ">> \o Itoa(result.book.id))
                                   /\ Serve(req, Response(StatusOK, "Book deleted successfully",
                                                            <<>>, deleted.err, ~deleted.err))

\* DELETE /books/:id (the same in both files, Unscoped() apart).
DeleteBook ==
    /\ steps < MaxSteps
    /\ \E id \in Paths, dbOk \in BOOLEAN :
         LET req    == Request("delete", id, <<>>, <<>>, ZeroBook)
             result == First(store, id, dbOk)
         IN  IF result.err
             THEN /\ Serve(req, Response(StatusNotFound, "Book not found", <<>>,
                                         ~result.notFound, FALSE))
                  /\ UNCHANGED <<store, nextId, cache, events>>
             ELSE \E delOk \in BOOLEAN :
                    LET deleted == Delete(store, result.book, delOk)
                    IN  /\ store' = deleted.store
                        /\ cache' = CacheDel(cache, {BooksKey, BookKey(id)})
                        /\ UNCHANGED nextId
                        /\ IF ProducerPanics
                           THEN /\ Serve(req, Recovered(~deleted.err))
                                /\ UNCHANGED events
                           ELSE /\ events' = PublishMessage("book_events",
                                         <<"Book deleted: ">> \o Itoa(result.book.id))
                                /\ Serve(req, Response(StatusOK, "Book deleted successfully",
                                                         <<>>, deleted.err, ~deleted.err))

Next ==
    \/ GetBooks
    \/ GetBooksPaged
    \/ GetBookByID
    \/ CreateBook
    \/ UpdateBook
    \/ UpdateBookBound
    \/ DeleteBook

Spec == Init /\ [][Next]_vars

\* GET /books with any query string: a limit that is omitted, positive, zero,
\* negative or not a number, and the same for the offset.
LimitQueries  == Opt({<<"1">>, <<"1", "0">>, <<"0">>, <<"-", "1">>, <<"x">>})
OffsetQueries == Opt({<<"1">>, <<"0">>, <<"-", "1">>, <<"x">>})

GetBooksAnyQuery ==
    /\ controller = "bookController"
    /\ steps < MaxSteps
    /\ \E limit \in LimitQueries, offset \in OffsetQueries : GetBooksWith(limit, offset)

GetBooksPagedAnyQuery ==
    /\ controller = "part_000"
    /\ steps < MaxSteps
    /\ \E limit \in LimitQueries, offset \in OffsetQueries : GetBooksPagedWith(limit, offset)

NextQueries ==
    \/ GetBooksAnyQuery
    \/ GetBooksPagedAnyQuery

SpecQueries == Init /\ [][NextQueries]_vars

\* The same process when Redis may be unreachable from the start to the end
\* (ConnectRedis logs the failed Ping and main goes on): the server either
\* answers and is empty, or does not answer, whatever it holds.
InitCacheDown ==
    /\ controller \in {"bookController", "part_000"}
    /\ producer \in {"nil", "ok"}
    /\ cacheUp \in BOOLEAN
    /\ store \in {<<>>, <<[id |-> 1, title |-> "a", author |-> "p", year |-> 1]>>}
    /\ nextId = Len(store) + 1
    /\ cache = <<>> \/ (~cacheUp /\ cache = WarmCache(controller, store))
    /\ events = <<>>
    /\ steps = 0
    /\ last = [req |-> Request("none", <<>>, <<>>, <<>>, ZeroBook),
               resp |-> Response(0, "", <<>>, FALSE, FALSE)]
    /\ inflight = <<>>

SpecCacheDown == InitCacheDown /\ [][Next]_vars

\* ------------------------------------------- handlers running side by side
\* gin serves every request on a goroutine of its own: between two calls a
\* handler makes to the store, the cache or the producer, other handlers run.
\* The calls of a handler in the order of its code (binding and validation
\* touch nothing shared and belong to the call they follow or precede).
StatementsPublishFirst(op) ==
    IF op \in {"get", "list"} THEN <<"cacheGet", "read", "cacheSet", "respond">>
    ELSE IF op = "create" THEN <<"write", "publish", "invalidate", "respond">>
    ELSE <<"read", "write", "publish", "invalidate", "respond">>

Statements(op) ==
    IF op \in {"get", "list"} THEN <<"cacheGet", "read", "cacheSet", "respond">>
    ELSE IF op = "create" THEN <<"write", "invalidate", "publish", "respond">>
    ELSE <<"read", "write", "invalidate", "publish", "respond">>

\* The statement that follows pc.
NextPc(op, pc) ==
    LET s == Statements(op)
    IN  s[(CHOOSE i \in 1..Len(s) : s[i] = pc) + 1]

\* The bodies of the requests served side by side: complete, valid, without
\* an id (two titles), and the malformed one.
ConcurrentBodies ==
    {b \in Bodies : \/ ~b.wellFormed
                    \/ /\ b.id = <<>>
                       /\ b.title \in {<<t>> : t \in Titles \ {""}}
                       /\ b.author \in {<<a>> : a \in Authors \ {""}}
                       /\ b.year \in {<<y>> : y \in Years \ {0}}}

\* A handler: the statement it is at and its local variables (bound: the
\* struct the body was bound onto; book: the record loaded, to write or
\* written; data: the JSON to cache and return; trace: the statements done).
Handler(op, path, bound) ==
    [op |-> op, path |-> path, pc |-> Statements(op)[1], bound |-> bound,
     book |-> ZeroBook, data |-> <<>>, trace |-> <<>>, status |-> 0,
     dbErr |-> FALSE, stored |-> FALSE]

Running == {i \in 1..Len(inflight) : inflight[i].pc # "done"}

\* GET /books is asked with the default limit and offset.
KeyOf(h) ==
    IF h.op # "list" THEN BookKey(h.path)
    ELSE IF controller = "bookController" THEN BooksKey
    ELSE PageKey(DefaultLimit, DefaultOffset)

RequestOf(h) == Request(h.op, h.path, <<>>, <<>>, h.bound)

\* The handler goes on to its next statement with these locals.
Proceed(i, bound, book, data, dbErr, stored) ==
    LET h == inflight[i]
    IN  /\ inflight' = [inflight EXCEPT ![i] =
                [op |-> h.op, path |-> h.path, pc |-> NextPc(h.op, h.pc), bound |-> bound,
                 book |-> book, data |-> data, trace |-> Append(h.trace, h.pc),
                 status |-> 0, dbErr |-> dbErr, stored |-> stored]]
        /\ UNCHANGED last

\* The handler returns: the response is written and the locals are gone.
Finish(i, bound, resp) ==
    LET h == inflight[i]
    IN  /\ inflight' = [inflight EXCEPT ![i] =
                [op |-> h.op, path |-> h.path, pc |-> "done", bound |-> ZeroBook,
                 book |-> ZeroBook, data |-> <<>>, trace |-> Append(h.trace, h.pc),
                 status |-> resp.status, dbErr |-> FALSE, stored |-> FALSE]]
        /\ last' = [req |-> Request(h.op, h.path, <<>>, <<>>, bound), resp |-> resp]

\* A request arrives and its handler starts.  CreateBook binds and validates
\* its body before its first call.
Accept ==
    /\ steps < MaxSteps
    /\ steps' = steps + 1
    /\ UNCHANGED <<controller, producer, cacheUp, store, nextId, cache, events>>
    /\ \/ /\ inflight' = Append(inflight, Handler("list", <<>>, ZeroBook))
          /\ UNCHANGED last
       \/ \E op \in {"get", "update", "delete"}, id \in Paths :
            /\ inflight' = Append(inflight, Handler(op, id, ZeroBook))
            /\ UNCHANGED last
       \/ \E body \in ConcurrentBodies :
            LET book == Bind(ZeroBook, body)
                msg  == IF ~body.wellFormed THEN "Invalid JSON data" ELSE ValidationError(book)
                h    == Handler("create", <<>>, book)
            IN  IF msg # ""
                THEN /\ inflight' = Append(inflight,
                            [h EXCEPT !.pc = "done", !.bound = ZeroBook,
                                      !.status = StatusBadRequest])
                     /\ last' = [req |-> RequestOf(h),
                                 resp |-> Response(StatusBadRequest, msg, <<>>, FALSE, FALSE)]
                ELSE /\ inflight' = Append(inflight, [h EXCEPT !.book = book])
                     /\ UNCHANGED last

\* redis.RedisClient.Get of GetBooks and GetBookByID: a hit is the response.
StepCacheGet ==
    \E i \in Running :
      LET h == inflight[i]
      IN  /\ h.pc = "cacheGet"
          /\ UNCHANGED <<controller, producer, cacheUp, store, nextId, cache, events, steps>>
          /\ IF CacheHit(KeyOf(h))
             THEN Finish(i, h.bound, Response(StatusOK, "",
                     IF h.op = "get" THEN <<Marshal(Unmarshal(cache[KeyOf(h)]))>>
                     ELSE IF controller = "bookController" THEN cache[KeyOf(h)]
                     ELSE MarshalList(UnmarshalList(cache[KeyOf(h)])),
                     FALSE, FALSE))
             ELSE Proceed(i, h.bound, h.book, h.data, FALSE, FALSE)

\* database.DB.First / Find of the handler; UpdateBook then binds and
\* validates the body.
StepRead ==
    \E i \in Running, dbOk \in BOOLEAN :
      LET h == inflight[i]
      IN  /\ h.pc = "read"
          /\ UNCHANGED <<controller, producer, cacheUp, store, nextId, cache, events, steps>>
          /\ IF h.op = "list"
             THEN LET result == IF controller = "bookController" THEN Find(store, dbOk)
                                ELSE FindPage(store, DefaultLimit, DefaultOffset, dbOk)
                  IN  IF result.err /\ controller = "bookController"
                      THEN Finish(i, h.bound, Response(StatusInternalServerError,
                                      "Error fetching books", <<>>, TRUE, FALSE))
                      ELSE Proceed(i, h.bound, h.book, MarshalList(result.books),
                                   result.err, FALSE)
             ELSE LET result == First(store, h.path, dbOk)
                  IN  IF result.err
                      THEN Finish(i, h.bound, Response(StatusNotFound, "Book not found", <<>>,
                                                       ~result.notFound, FALSE))
                      ELSE IF h.op = "get"
                      THEN Proceed(i, h.bound, result.book, Marshal(result.book), FALSE, FALSE)
                      ELSE IF h.op = "delete"
                      THEN Proceed(i, h.bound, result.book, h.data, FALSE, FALSE)
                      ELSE \E body \in ConcurrentBodies :
                        LET bindLoaded == controller = "part_000"
                            payload == Bind(IF bindLoaded THEN result.book ELSE ZeroBook, body)
                            book    == IF bindLoaded THEN payload
                                       ELSE [result.book EXCEPT !.title = payload.title,
                                                                !.author = payload.author,
                                                                !.year = payload.year]
                        IN  IF ~body.wellFormed
                            THEN Finish(i, ZeroBook, Response(StatusBadRequest,
                                            "Invalid JSON data", <<>>, FALSE, FALSE))
                            ELSE IF ValidationError(payload) # ""
                            THEN Finish(i, payload, Response(StatusBadRequest,
                                            ValidationError(payload), <<>>, FALSE, FALSE))
                            ELSE Proceed(i, payload, book, h.data, FALSE, FALSE)

\* redis.RedisClient.Set of GetBooks and GetBookByID with what was read.
StepCacheSet ==
    \E i \in Running :
      LET h == inflight[i]
      IN  /\ h.pc = "cacheSet"
          /\ cache' = CacheSet(cache, KeyOf(h), h.data)
          /\ Proceed(i, h.bound, h.book, h.data, h.dbErr, h.stored)
          /\ UNCHANGED <<controller, producer, cacheUp, store, nextId, events, steps>>

\* database.DB.Create / Save / Delete of the handler (only Create's result
\* is looked at).
StepWrite ==
    \E i \in Running, dbOk \in BOOLEAN :
      LET h == inflight[i]
      IN  /\ h.pc = "write"
          /\ UNCHANGED <<controller, producer, cacheUp, cache, events, steps>>
          /\ IF h.op = "create"
             THEN /\ h.book.id # 0 \/ nextId <= MaxId
                  /\ LET result == Create(store, nextId, h.book, dbOk)
                     IN  /\ store' = result.store
                         /\ nextId' = result.nextId
                         /\ IF result.err
                            THEN Finish(i, h.bound, Response(StatusInternalServerError,
                                            "Failed to create book", <<>>, TRUE, FALSE))
                            ELSE Proceed(i, h.bound, result.book, h.data, FALSE, TRUE)
             ELSE IF h.op = "update"
             THEN /\ h.book.id # 0 \/ nextId <= MaxId
                  /\ \E upsert \in IF dbOk /\ h.book.id # 0 /\ ~HasRow(store, h.book.id)
                                   THEN BOOLEAN ELSE {FALSE} :
                       LET result == Save(store, nextId, h.book, dbOk, upsert)
                       IN  /\ store' = result.store
                           /\ nextId' = result.nextId
                           /\ Proceed(i, h.bound, result.book, h.data, result.err,
                                      ~result.err /\ result.store # store)
             ELSE LET deleted == Delete(store, h.book, dbOk)
                  IN  /\ store' = deleted.store
                      /\ UNCHANGED nextId
                      /\ Proceed(i, h.bound, h.book, h.data, deleted.err, ~deleted.err)

\* redis.RedisClient.Del of CreateBook ("books"), UpdateBook and DeleteBook
\* ("books" and "book:"+id).
StepInvalidate ==
    \E i \in Running :
      LET h == inflight[i]
      IN  /\ h.pc = "invalidate"
          /\ cache' = CacheDel(cache, IF h.op = "create" THEN {BooksKey}
                                      ELSE {BooksKey, BookKey(h.path)})
          /\ Proceed(i, h.bound, h.book, h.data, h.dbErr, h.stored)
          /\ UNCHANGED <<controller, producer, cacheUp, store, nextId, events, steps>>

\* kafka.PublishMessage of the mutation; a nil Producer panics and Recovery
\* answers.
StepPublish ==
    \E i \in Running :
      LET h == inflight[i]
      IN  /\ h.pc = "publish"
          /\ UNCHANGED <<controller, producer, cacheUp, store, nextId, cache, steps>>
          /\ IF ProducerPanics
             THEN /\ Finish(i, h.bound, Recovered(h.stored))
                  /\ UNCHANGED events
             ELSE /\ events' = PublishMessage("book_events",
                        IF h.op = "create" THEN <<"New book added: ", h.book.title>>
                        ELSE IF h.op = "update" THEN <<"Book updated: ", h.book.title>>
                        ELSE <<"Book deleted: ">> \o Itoa(h.book.id))
                  /\ Proceed(i, h.bound, h.book, h.data, h.dbErr, h.stored)

\* ctx.JSON / ctx.Data at the end of the handler.
StepRespond ==
    \E i \in Running :
      LET h == inflight[i]
      IN  /\ h.pc = "respond"
          /\ UNCHANGED <<controller, producer, cacheUp, store, nextId, cache, events, steps>>
          /\ Finish(i, h.bound,
                CASE h.op = "get"    -> Response(StatusOK, "", <<h.data>>, FALSE, FALSE)
                  [] h.op = "list"   -> Response(StatusOK, "", h.data, h.dbErr, FALSE)
                  [] h.op = "create" -> Response(StatusCreated, "", <<Marshal(h.book)>>,
                                                 FALSE, TRUE)
                  [] h.op = "update" -> Response(StatusOK, "", <<Marshal(h.book)>>,
                                                 h.dbErr, h.stored)
                  [] h.op = "delete" -> Response(StatusOK, "Book deleted successfully",
                                                 <<>>, h.dbErr, h.stored))

NextConcurrent ==
    \/ Accept
    \/ StepCacheGet
    \/ StepRead
    \/ StepCacheSet
    \/ StepWrite
    \/ StepInvalidate
    \/ StepPublish
    \/ StepRespond

SpecConcurrent == Init /\ [][NextConcurrent]_vars

\* ================================================================ claims
Mutations == {"create", "update", "delete"}

\* The Book objects of the last response.
RespBooks(r) == UnmarshalList(r.resp.books)

\* A key under which a GetBooks version stores a list.
IsListKey(k) == k[1] \in {"books", "books:limit="}

\* C1: after CreateBook answered 201 for a book, the next GET /books with
\* default limit and offset (whose store read, if any, did not fail) answers
\* 200 with a list that includes that book.
C1_ListAfterCreate ==
    [][(/\ last.req.op = "create" /\ last.resp.status = StatusCreated
        /\ last'.req.op = "list" /\ last'.req.limit = <<>> /\ last'.req.offset = <<>>
        /\ ~last'.resp.dbErr)
       => /\ last'.resp.status = StatusOK
          /\ \E i \in 1..Len(last'.resp.books) : last'.resp.books[i] = last.resp.books[1]]_vars

\* C2: after UpdateBook answered 200 on a path (its store calls having
\* succeeded), the next GET on the same path (store call not failing)
\* answers 200 with the title, author and year the update returned.
C2_GetAfterUpdate ==
    [][(/\ last.req.op = "update" /\ last.resp.status = StatusOK /\ ~last.resp.dbErr
        /\ last'.req.op = "get" /\ last'.req.path = last.req.path
        /\ ~last'.resp.dbErr)
       => /\ last'.resp.status = StatusOK
          /\ RespBooks(last')[1].title = RespBooks(last)[1].title
          /\ RespBooks(last')[1].author = RespBooks(last)[1].author
          /\ RespBooks(last')[1].year = RespBooks(last)[1].year]_vars

\* C3: after DeleteBook answered 200 on a path (its store calls having
\* succeeded), the next GET on the same path answers 404 and the next
\* GET /books, whatever its limit and offset, does not list the deleted id.
C3_ReadsAfterDelete ==
    [][(last.req.op = "delete" /\ last.resp.status = StatusOK /\ ~last.resp.dbErr)
       => /\ (last'.req.op = "get" /\ last'.req.path = last.req.path)
                => last'.resp.status = StatusNotFound
          /\ last'.req.op = "list"
                => \A i \in 1..Len(last'.resp.books) :
                      RespBooks(last')[i].id # Atoi(last.req.path).val]_vars

\* C4: every row of the store has a non-empty title, a non-empty author and
\* a year above zero.
C4_PersistedBooksValid ==
    \A i \in 1..Len(store) :
        store[i].title # "" /\ store[i].author # "" /\ store[i].year > 0

\* C4 witness: an update that changed the store, with two rows persisted.
C4_Witness ==
    /\ last.req.op = "update" /\ last.resp.status = StatusOK /\ last.resp.stored
    /\ Len(store) = 2

\* C5: UpdateBook on path id k leaves the set of row ids as it was and
\* leaves every row whose id is not k as it was.
C5_UpdateTouchesOnlyItsRow ==
    [][last'.req.op = "update"
       => /\ RowIds(store') = RowIds(store)
          /\ \A i \in 1..Len(store) :
                store[i].id # Atoi(last'.req.path).val
                   => i <= Len(store') /\ store'[i] = store[i]]_vars

\* C6: after a successful create, update or delete no list entry is left in
\* the cache, and after an update or delete no book:<id> entry for the id as
\* the request's path gave it;
\* a mutation never sets a cache value; a value set by GetBooks or
\* GetBookByID is the body of that response, read from the store without a
\* store error.
C6_InvalidationContract ==
    [][/\ (last'.req.op \in Mutations /\ last'.resp.status \in {StatusOK, StatusCreated})
             => /\ \A k \in DOMAIN cache' : ~IsListKey(k)
                /\ last'.req.op \in {"update", "delete"}
                      => BookKey(last'.req.path) \notin DOMAIN cache'
       /\ last'.req.op \in Mutations
             => \A k \in DOMAIN cache' : k \in DOMAIN cache /\ cache'[k] = cache[k]
       /\ last'.req.op \in {"list", "get"}
             => \A k \in DOMAIN cache' :
                   (k \notin DOMAIN cache \/ cache'[k] # cache[k])
                      => /\ ~last'.resp.dbErr
                         /\ last'.resp.status = StatusOK
                         /\ IF IsListKey(k) THEN cache'[k] = last'.resp.books
                            ELSE <<cache'[k]>> = last'.resp.books]_vars

\* C7: a CreateBook whose bound book has an empty title, an empty author or
\* a year <= 0 answers 400 and leaves the store, the id sequence, the cache
\* and the event log as they were.
C7_InvalidCreateRejected ==
    [][(/\ last'.req.op = "create"
        /\ \/ last'.req.book.title = ""
           \/ last'.req.book.author = ""
           \/ last'.req.book.year <= 0)
       => /\ last'.resp.status = StatusBadRequest
          /\ UNCHANGED <<store, nextId, cache, events>>]_vars

\* C7 witness: a create rejected for its year alone.
C7_Witness ==
    /\ last.req.op = "create" /\ last.resp.status = StatusBadRequest
    /\ last.req.book.title # "" /\ last.req.book.author # "" /\ last.req.book.year <= 0

\* C8: the Book returned with 201 has the id the store's sequence assigned
\* (not one carried by the request), an id no existing row had, and the
\* title, author and year of the request.
C8_CreatedBookHasStoreId ==
    [][(last'.req.op = "create" /\ last'.resp.status = StatusCreated)
       => /\ RespBooks(last')[1].id = nextId
          /\ nextId' = nextId + 1
          /\ RespBooks(last')[1].id \notin RowIds(store)
          /\ RespBooks(last')[1].title = last'.req.book.title
          /\ RespBooks(last')[1].author = last'.req.book.author
          /\ RespBooks(last')[1].year = last'.req.book.year]_vars

\* C9: a create, update or delete whose store write succeeded answers with
\* its success status (201 for create, 200 otherwise) whatever the state of
\* the producer.
C9_NotifierFailureNotSurfaced ==
    [][(last'.req.op \in Mutations /\ last'.resp.stored)
       => last'.resp.status =
             IF last'.req.op = "create" THEN StatusCreated ELSE StatusOK]_vars

\* C10: a request in which a store call failed for another reason than a
\* missing row answers 500, sets no cache value and publishes no event.
C10_StoreFailureIs500 ==
    [][last'.resp.dbErr
       => /\ last'.resp.status = StatusInternalServerError
          /\ \A k \in DOMAIN cache' : k \in DOMAIN cache /\ cache'[k] = cache[k]
          /\ events' = events]_vars

\* What a request answers and does when the cache gives it nothing: the
\* response, the store, the id sequence and the event log computed from the
\* store and the producer alone.
ServedWithoutCache ==
    LET req  == last'.req
        resp == last'.resp
        same == UNCHANGED <<store, nextId, events>>
        published(msg) ==
            events' = IF ProducerPanics THEN events ELSE PublishMessage("book_events", msg)
        answered(stored, ok) == resp = IF ProducerPanics THEN Recovered(stored) ELSE ok
        rejected(msg) == resp = Response(StatusBadRequest, msg, <<>>, FALSE, FALSE) /\ same
        notFound(r) ==
            /\ resp = Response(StatusNotFound, "Book not found", <<>>, ~r.notFound, FALSE)
            /\ same
        checked(then) ==
            \/ req.book = ZeroBook /\ rejected("Invalid JSON data")
            \/ ValidationError(req.book) # "" /\ rejected(ValidationError(req.book))
            \/ ValidationError(req.book) = "" /\ then
    IN  \E dbOk \in BOOLEAN :
          CASE req.op = "get" ->
                 LET r == First(store, req.path, dbOk)
                 IN  IF r.err THEN notFound(r)
                     ELSE /\ resp = Response(StatusOK, "", <<Marshal(r.book)>>, FALSE, FALSE)
                          /\ same
            [] req.op = "list" /\ controller = "bookController" ->
                 LET r == Find(store, dbOk)
                 IN  /\ resp = IF r.err
                               THEN Response(StatusInternalServerError,
                                             "Error fetching books", <<>>, TRUE, FALSE)
                               ELSE Response(StatusOK, "", MarshalList(r.books), FALSE, FALSE)
                     /\ same
            [] req.op = "list" /\ controller = "part_000" ->
                 LET r == FindPage(store, EffectiveLimit(req.limit),
                                   EffectiveOffset(req.offset), dbOk)
                 IN  /\ resp = Response(StatusOK, "", MarshalList(r.books), r.err, FALSE)
                     /\ same
            [] req.op = "create" ->
                 LET r == Create(store, nextId, req.book, dbOk)
                 IN  checked(IF r.err
                             THEN /\ resp = Response(StatusInternalServerError,
                                                     "Failed to create book", <<>>, TRUE, FALSE)
                                  /\ nextId' = r.nextId
                                  /\ UNCHANGED <<store, events>>
                             ELSE /\ store' = r.store
                                  /\ nextId' = r.nextId
                                  /\ published(<<"New book added: ", r.book.title>>)
                                  /\ answered(TRUE, Response(StatusCreated, "",
                                                   <<Marshal(r.book)>>, FALSE, TRUE)))
            [] req.op = "update" ->
                 LET loaded == First(store, req.path, dbOk)
                     book == IF controller = "part_000" THEN req.book
                             ELSE [loaded.book EXCEPT !.title = req.book.title,
                                                      !.author = req.book.author,
                                                      !.year = req.book.year]
                 IN  IF loaded.err THEN notFound(loaded)
                     ELSE checked(\E saveOk, upsert \in BOOLEAN :
                            LET r == Save(store, nextId, book, saveOk, upsert)
                                stored == ~r.err /\ r.store # store
                            IN  /\ store' = r.store
                                /\ nextId' = r.nextId
                                /\ published(<<"Book updated: ", r.book.title>>)
                                /\ answered(stored, Response(StatusOK, "",
                                                 <<Marshal(r.book)>>, r.err, stored)))
            [] req.op = "delete" ->
                 LET loaded == First(store, req.path, dbOk)
                 IN  IF loaded.err THEN notFound(loaded)
                     ELSE \E delOk \in BOOLEAN :
                            LET r == Delete(store, loaded.book, delOk)
                            IN  /\ store' = r.store
                                /\ nextId' = nextId
                                /\ published(<<"Book deleted: ">> \o Itoa(loaded.book.id))
                                /\ answered(~r.err,
                                            Response(StatusOK, "Book deleted successfully",
                                                     <<>>, r.err, ~r.err))

\* C11: a request served while every cache call fails answers and acts as
\* one served by a working, empty cache: both give the response and make the
\* store changes and the publication that the store and the producer alone
\* determine, and the failing cache is left as it was.
C11_CacheFailuresSwallowed ==
    [][/\ (~cacheUp \/ cache = <<>>) => ServedWithoutCache
       /\ ~cacheUp => cache' = cache]_vars

\* C11 witness: with the cache failing, a GET answered 200 from the store
\* although the unreachable server holds another value under its key.
C11_Witness ==
    /\ ~cacheUp
    /\ last.req.op = "get" /\ last.resp.status = StatusOK
    /\ BookKey(last.req.path) \in DOMAIN cache
    /\ <<cache[BookKey(last.req.path)]>> # last.resp.books

\* C12: a create or update answered 400 either names the malformed JSON,
\* with nothing bound and no field looked at (the zero Book would have failed
\* the title check), or names the first rule, in the order title, author,
\* year, that the bound book violates.
C12_ValidationOrder ==
    [][(last'.req.op \in {"create", "update"} /\ last'.resp.status = StatusBadRequest)
       => LET book == last'.req.book
              msg  == last'.resp.msg
          IN  \/ msg = "Invalid JSON data" /\ book = ZeroBook
              \/ msg = "Title cannot be empty" /\ book.title = ""
              \/ msg = "Author cannot be empty" /\ book.title # "" /\ book.author = ""
              \/ /\ msg = "Year must be a valid positive number"
                 /\ book.title # "" /\ book.author # "" /\ book.year <= 0]_vars

\* C12 witness: an update whose payload breaks all three rules, rejected for
\* its title.
C12_Witness ==
    /\ last.req.op = "update" /\ last.resp.status = StatusBadRequest
    /\ last.req.book.title = "" /\ last.req.book.author = "" /\ last.req.book.year <= 0
    /\ last.resp.msg = "Title cannot be empty"

\* s is an initial part of t.
IsPrefix(s, t) == Len(s) <= Len(t) /\ SubSeq(t, 1, Len(s)) = s

\* The calls a mutation handler has made after loading its record.
CallsOf(h) == SelectSeq(h.trace, LAMBDA c : c # "read")

\* C13: whatever other handlers do in between, the calls of a create, update
\* or delete handler come in the order store write, cache deletion, publish,
\* response: the step that changes the store is its write, the step that
\* changes the cache its deletion, coming after the write, the step that
\* adds an event its publish, coming after both, and a success status is
\* returned only after all three.
C13_MutationStepOrder ==
    [][\A i \in 1..Len(inflight) :
         LET h     == inflight[i]
             calls == CallsOf(inflight'[i])
         IN  (h.op \in Mutations /\ inflight'[i].trace # h.trace)
             => /\ IsPrefix(calls, <<"write", "invalidate", "publish", "respond">>)
                /\ (store' # store \/ nextId' # nextId) => calls = <<"write">>
                /\ cache' # cache => calls = <<"write", "invalidate">>
                /\ events' # events => calls = <<"write", "invalidate", "publish">>
                /\ inflight'[i].status \in {StatusOK, StatusCreated}
                      => /\ calls = <<"write", "invalidate", "publish", "respond">>
                         /\ last'.req.op = h.op /\ last'.resp.status = inflight'[i].status
       ]_vars

\* C13 witness: a delete that has gone through all its calls and answered
\* 200 while an update that arrived before it is between its calls.
C13_Witness ==
    /\ Len(inflight) = 2
    /\ inflight[1].op = "update" /\ inflight[1].pc = "invalidate"
    /\ inflight[2].op = "delete" /\ inflight[2].status = StatusOK
    /\ inflight[2].trace = <<"read", "write", "invalidate", "publish", "respond">>

\* C14: a create, update or delete that changed the store appends exactly
\* one event, carrying the created title, the updated title or the deleted id;
\* a list, a get, and a mutation answered 400, 404 or 500 or whose store write
\* failed, the store being as before, append none.
C14_OneEventPerStoreChange ==
    [][LET req  == last'.req
           resp == last'.resp
       IN  /\ (req.op \in Mutations /\ store' # store)
                 => /\ Len(events') = Len(events) + 1
                    /\ SubSeq(events', 1, Len(events)) = events
                    /\ events'[Len(events')].topic = "book_events"
                    /\ events'[Len(events')].value =
                          CASE req.op = "create" -> <<"New book added: ", req.book.title>>
                            [] req.op = "update" -> <<"Book updated: ", req.book.title>>
                            [] req.op = "delete" ->
                                 <<"Book deleted: ">>
                                    \o Itoa(CHOOSE k \in RowIds(store) : k \notin RowIds(store'))
           /\ (\/ req.op \in {"list", "get"}
               \/ /\ req.op \in Mutations
                  /\ store' = store
                  /\ \/ resp.dbErr
                     \/ resp.status \in {StatusBadRequest, StatusNotFound,
                                          StatusInternalServerError})
                 => events' = events]_vars

\* C15: a GET /books/<id> for an id that has no row answers 404, leaves the
\* cache as it was and leaves the store as it was, whatever was served before.
C15_MissingBookIs404 ==
    [][(last'.req.op = "get" /\ ~HasRow(store, Atoi(last'.req.path).val))
       => /\ last'.resp.status = StatusNotFound
          /\ cache' = cache
          /\ store' = store]_vars

\* The key the GetBooks built in looks up for a request.
LookupKey(req) ==
    IF controller = "bookController" THEN BooksKey
    ELSE PageKey(EffectiveLimit(req.limit), EffectiveOffset(req.offset))

\* C16: a GET /books that misses the cache and whose store read does not
\* fail answers 200 with the rows offset+1 .. offset+limit of the table (at
\* most limit books), and leaves exactly that list in the cache under the key
\* it looks up for these parameters.
C16_MissReadsRequestedPage ==
    [][(/\ last'.req.op = "list"
        /\ LookupKey(last'.req) \notin DOMAIN cache
        /\ ~last'.resp.dbErr)
       => LET limit  == EffectiveLimit(last'.req.limit)
              offset == EffectiveOffset(last'.req.offset)
          IN  /\ last'.resp.status = StatusOK
              /\ Len(last'.resp.books) <= limit
              /\ last'.resp.books
                    = MarshalList(SubSeq(store, offset + 1, Min(offset + limit, Len(store))))
              /\ LookupKey(last'.req) \in DOMAIN cache'
              /\ cache'[LookupKey(last'.req)] = last'.resp.books]_vars

\* The query values the claim says are taken as if the parameter was omitted.
CoercedLimits  == {<<<<"0">>>>, <<<<"-", "1">>>>, <<<<"x">>>>}
CoercedOffsets == {<<<<"-", "1">>>>, <<<<"x">>>>}

\* The request with every such value left out.
AsOmitted(req) ==
    Request("list", <<>>, IF req.limit \in CoercedLimits THEN <<>> ELSE req.limit,
            IF req.offset \in CoercedOffsets THEN <<>> ELSE req.offset, ZeroBook)

FreshValue(k) ==
    IF k = BooksKey THEN MarshalList(store)
    ELSE IF k = PageKey(DefaultLimit, DefaultOffset)
    THEN MarshalList(SubSeq(store, DefaultOffset + 1,
                            Min(DefaultOffset + DefaultLimit, Len(store))))
    ELSE LET r == First(store, Tail(k), TRUE)
         IN  IF r.err THEN <<>> ELSE Marshal(r.book)

\* C18: when every request that arrived has been answered, every entry
\* still in the cache is what a read of the store gives for its key.
C18_CacheConsistentAtRest ==
    (inflight # <<>> /\ Running = {})
       => \A k \in DOMAIN cache : cache[k] = FreshValue(k)

\* C19: when DeleteBook answers 200 for id k, its DELETE having succeeded,
\* the table has no row k; and while that is the last answer given, a row k
\* comes into the table only by the store write of a CreateBook, whatever the
\* handlers that loaded row k before the delete do afterwards.
C19_DeletedStaysDeleted ==
    [][/\ (/\ last' # last
           /\ last'.req.op = "delete" /\ last'.resp.status = StatusOK
           /\ last'.resp.stored)
             => ~HasRow(store', Atoi(last'.req.path).val)
       /\ (/\ last.req.op = "delete" /\ last.resp.status = StatusOK /\ last.resp.stored
           /\ ~HasRow(store, Atoi(last.req.path).val)
           /\ HasRow(store', Atoi(last.req.path).val))
             => \E i \in 1..Len(inflight) :
                   /\ inflight[i].op = "create"
                   /\ inflight[i].pc = "write" /\ inflight'[i].pc # "write"]_vars

\* The "book:<path>" keys of the paths that the store resolves to row k.
KeysOfRow(k) == {BookKey(p) : p \in {q \in Paths : Atoi(q).ok /\ Atoi(q).val = k}}

\* C20: after an UpdateBook or DeleteBook answered 200 for a path that
\* resolves to row k, its store calls having succeeded, the cache holds no
\* "book:" key of any path that resolves to row k.
C20_BookKeysCanonical ==
    [][(/\ last'.req.op \in {"update", "delete"} /\ last'.resp.status = StatusOK
        /\ ~last'.resp.dbErr)
       => \A key \in KeysOfRow(Atoi(last'.req.path).val) : key \notin DOMAIN cache']_vars

\* C21: an UpdateBook or DeleteBook answered 404, and an UpdateBook answered
\* 400, leave the store, the id sequence, every cache entry and the event
\* log as they were.
C21_RejectedMutationChangesNothing ==
    [][(\/ last'.req.op \in {"update", "delete"} /\ last'.resp.status = StatusNotFound
        \/ last'.req.op = "update" /\ last'.resp.status = StatusBadRequest)
       => UNCHANGED <<store, nextId, cache, events>>]_vars

\* C21 witness: an update rejected with 400 when the table has a row, the
\* cache an entry and the log an event of an earlier request.
C21_Witness ==
    /\ last.req.op = "update" /\ last.resp.status = StatusBadRequest
    /\ store # <<>> /\ DOMAIN cache # {} /\ events # <<>>

====
